---------------------------- MODULE Spec2Model ----------------------------
(***************************************************************************)
(* A model of mjson.h: the tokenizer mjson, the path resolver mjson_find   *)
(* with its callback mjson_find_cb, the escape codec mjson_esc, the string *)
(* scanner mjson_pass_string, mjson_unescape, and the printers             *)
(* mjson_print_int, mjson_print_str, mjson_print_buf writing through       *)
(* mjson_fixed_buf_printer.                                                *)
(*                                                                         *)
(* Bytes are their ASCII codes, so that the code's character arithmetic    *)
(* (nesting[depth - 1] + 2, tok - 2) is the model's arithmetic.  Offsets   *)
(* are 0-based as in C; At reads memory at a 0-based offset.               *)
(***************************************************************************)
EXTENDS Integers, Sequences, FiniteSets, TLC

\* The character literals the source compares bytes against.
Ch == [NUL |-> 0, BS |-> 8, TAB |-> 9, LF |-> 10, FF |-> 12, CR |-> 13,
       SP |-> 32, QUOTE |-> 34, DOLLAR |-> 36, PLUS |-> 43, COMMA |-> 44,
       MINUS |-> 45, DOT |-> 46, SLASH |-> 47, D0 |-> 48, D1 |-> 49,
       D2 |-> 50, D9 |-> 57, COLON |-> 58, UE |-> 69, LBRACK |-> 91,
       BSLASH |-> 92, RBRACK |-> 93, a |-> 97, b |-> 98, e |-> 101,
       f |-> 102, l |-> 108, n |-> 110, r |-> 114, s |-> 115, t |-> 116,
       u |-> 117, x |-> 120, LBRACE |-> 123, RBRACE |-> 125]

MJSON_ERROR_INVALID_INPUT == -1
MJSON_ERROR_TOO_DEEP == -2

MJSON_TOK_INVALID == 0
MJSON_TOK_KEY == 1
MJSON_TOK_STRING == 11
MJSON_TOK_NUMBER == 12
MJSON_TOK_TRUE == 13
MJSON_TOK_FALSE == 14
MJSON_TOK_NULL == 15
MJSON_TOK_ARRAY == 91
MJSON_TOK_OBJECT == 123

MJSON_TOK_IS_VALUE(t) == t > 10 /\ t < 20

MJSON_MAX_DEPTH == 20

S_VALUE == "S_VALUE"
S_KEY == "S_KEY"
S_COLON == "S_COLON"
S_COMMA_OR_EOO == "S_COMMA_OR_EOO"

-----------------------------------------------------------------------------
(* Memory *)

\* The byte at 0-based offset k of the NUL-terminated memory m: the bytes of
\* m, then the terminator.
At(m, k) == IF k >= 0 /\ k < Len(m) THEN m[k + 1] ELSE Ch.NUL

\* memcmp(&m[k], lit, Len(lit)) == 0
MemEq(m, k, lit) == \A j \in 1..Len(lit) : At(m, k + j - 1) = lit[j]

IsSpace(c) == c \in {Ch.SP, Ch.TAB, Ch.LF, Ch.CR}
IsDigit(c) == c >= Ch.D0 /\ c <= Ch.D9

-----------------------------------------------------------------------------
(* mjson_esc *)

esc1 == <<Ch.BS, Ch.FF, Ch.LF, Ch.CR, Ch.TAB, Ch.BSLASH, Ch.QUOTE, Ch.SLASH>>
esc2 == <<Ch.b, Ch.f, Ch.n, Ch.r, Ch.t, Ch.BSLASH, Ch.QUOTE, Ch.SLASH>>

\* strchr(tbl, c) as a 1-based position in the literal tbl, its terminating
\* NUL included (position Len(tbl) + 1); 0 when c is not found.
strchr(tbl, c) ==
  IF \E k \in 1..Len(tbl) : tbl[k] = c
  THEN CHOOSE k \in 1..Len(tbl) : tbl[k] = c /\ \A j \in 1..(k - 1) : tbl[j] # c
  ELSE IF c = Ch.NUL THEN Len(tbl) + 1 ELSE 0

\* mjson_esc with the two tables taken for each other.
mjson_esc_swapped(c, esc) ==
  LET from == IF esc # 0 THEN esc2 ELSE esc1
      to == IF esc # 0 THEN esc1 ELSE esc2
      p == strchr(from, c)
  IN IF p = 0 THEN 0 ELSE At(to, p - 1)

\* esc # 0: raw character -> escape letter; esc = 0: escape letter -> raw
\* character; 0 when c is in neither table.
mjson_esc(c, esc) ==
  LET from == IF esc # 0 THEN esc1 ELSE esc2
      to == IF esc # 0 THEN esc2 ELSE esc1
      p == strchr(from, c)
  IN IF p = 0 THEN 0 ELSE At(to, p - 1)

-----------------------------------------------------------------------------
(* mjson_pass_string *)

RECURSIVE pass_string_from(_, _, _, _)
pass_string_from(m, base, n, j) ==
  IF j >= n THEN MJSON_ERROR_INVALID_INPUT
  ELSE IF At(m, base + j) = Ch.BSLASH /\ j + 1 < n
          /\ mjson_esc(At(m, base + j + 1), 1) # 0
       THEN pass_string_from(m, base, n, j + 2)
  ELSE IF At(m, base + j) = Ch.NUL THEN MJSON_ERROR_INVALID_INPUT
  ELSE IF At(m, base + j) = Ch.QUOTE THEN j
  ELSE pass_string_from(m, base, n, j + 1)

\* mjson_pass_string(&m[base], n)
mjson_pass_string(m, base, n) == pass_string_from(m, base, n, 0)

-----------------------------------------------------------------------------
(* strtod, as mjson uses it: how many bytes the longest numeric lexeme at  *)
(* &m[k] takes (end - &m[k]), and its value converted to int.  The decimal *)
(* form of the C grammar: optional sign, digits with an optional '.', and  *)
(* an optional exponent that counts only when it has a digit.  The hex,    *)
(* inf and nan forms need bytes no modelled input holds after the sign.    *)

RECURSIVE digits_end(_, _)
digits_end(m, k) == IF IsDigit(At(m, k)) THEN digits_end(m, k + 1) ELSE k

strtod_end(m, k) ==
  LET p0 == IF At(m, k) \in {Ch.MINUS, Ch.PLUS} THEN k + 1 ELSE k
      p1 == digits_end(m, p0)
      p2 == IF At(m, p1) = Ch.DOT THEN digits_end(m, p1 + 1) ELSE p1
      mant == (p1 > p0) \/ (p2 > p1 + 1)
      q0 == IF At(m, p2 + 1) \in {Ch.MINUS, Ch.PLUS} THEN p2 + 2 ELSE p2 + 1
      q1 == digits_end(m, q0)
  IN IF ~mant THEN k
     ELSE IF At(m, p2) \in {Ch.e, Ch.UE} /\ q1 > q0 THEN q1 ELSE p2

RECURSIVE digits_value(_, _, _)
digits_value(m, k, acc) ==
  IF IsDigit(At(m, k)) THEN digits_value(m, k + 1, 10 * acc + (At(m, k) - Ch.D0))
  ELSE acc

\* (int) strtod(&m[k], NULL) for a lexeme of plain digits (a path index).
strtod_int(m, k) ==
  IF At(m, k) = Ch.MINUS THEN 0 - digits_value(m, k + 1, 0)
  ELSE digits_value(m, k, 0)

-----------------------------------------------------------------------------
(* State *)

VARIABLES
  s,          \* the memory at the buffer's address, NUL-terminated
  len,        \* the length given to mjson_find / mjson
  jp,         \* the path given to mjson_find
  pc,         \* "call", "scan" (in mjson's loop), "ret" (mjson returned), "done"
  i,          \* mjson: the loop index
  expecting,  \* mjson: the mode
  nesting,    \* mjson: the bracket stack, nesting[k] of C at nesting[k + 1]
  depth,      \* mjson: the number of open brackets
  ret,        \* mjson: the value returned (read when pc is "ret" or "done")
  data,       \* struct msjon_find_data, with *tokptr and *toklen
  events,     \* the callback invocations so far: (ev, off, len)
  access,     \* the worst access to nesting[] so far: "ok", "below", "above"
  result,     \* mjson_find: the value returned (read when pc is "done")
  input       \* how the input was drawn, and what the path denotes in it

scanVars == <<s, len, jp, i, expecting, nesting, depth, ret, data, events,
              access, result, input>>

VARIABLES
  op,         \* the printer-side function called; "none" in a mjson_find run
  arg,        \* its arguments: the integer n, the bytes str
  fb,         \* struct mjson_fixed_buf: ptr (the memory, size bytes), size, len
  sink,       \* what mjson_fixed_buf_printer was asked and did, over all calls
  frames,     \* mjson_print_int: the activations, innermost last
  rv,         \* mjson_print_int: the value the last finished activation returned
  out         \* what the function returned, and the buffer mjson_unescape wrote

printVars == <<op, arg, fb, sink, frames, rv, out>>

vars == <<scanVars, pc, printVars>>

-----------------------------------------------------------------------------
(* mjson_find_cb *)

\* while (data->path[data->pos] != ']') data->pos++;  A path with no ']' at
\* or after pos would be read past its end; the scan of the model stops at
\* the terminator.
RECURSIVE path_close(_, _)
path_close(path, pos) ==
  IF At(path, pos) = Ch.RBRACK \/ pos >= Len(path) THEN pos
  ELSE path_close(path, pos + 1)

\* !memcmp(s + off + 1, &data->path[data->pos + 1], len - 2)
key_matches(m, off, n, path, pos) ==
  \A j \in 0..(n - 3) : At(m, off + 1 + j) = At(path, pos + 1 + j)

find_cb_open_array(d, path, off) ==
  LET sel == d.d1 = d.d2 /\ At(path, d.pos) = Ch.LBRACK
      i2 == IF sel THEN strtod_int(path, d.pos + 1) ELSE d.i2
      i1 == IF sel THEN 0 ELSE d.i1
      hit == sel /\ i1 = i2
      d2 == IF hit THEN d.d2 + 1 ELSE d.d2
      pos == IF hit THEN d.pos + 3 ELSE d.pos
      obj == IF At(path, pos) = Ch.NUL /\ d.d1 = d2 THEN off ELSE d.obj
  IN [d EXCEPT !.i1 = i1, !.i2 = i2, !.d2 = d2, !.pos = pos, !.obj = obj,
               !.d1 = d.d1 + 1]

find_cb_comma(d, path) ==
  IF d.d1 = d.d2 + 1
  THEN IF d.i1 + 1 = d.i2
       THEN [d EXCEPT !.i1 = d.i1 + 1,
                      !.pos = path_close(path, d.pos) + 1,
                      !.d2 = d.d2 + 1]
       ELSE [d EXCEPT !.i1 = d.i1 + 1]
  ELSE d

find_cb_close(d, path, tok, off) ==
  IF At(path, d.pos) = Ch.NUL /\ d.d1 - 1 = d.d2 /\ d.obj # -1
  THEN [d EXCEPT !.d1 = d.d1 - 1, !.tok = tok - 2, !.tokptr = d.obj,
                 !.toklen = off - d.obj + 1]
  ELSE [d EXCEPT !.d1 = d.d1 - 1]

\* mjson_find_cb without its first test: a match already stored is not kept.
mjson_find_cb_again(d, path, m, tok, off, n) ==
  IF tok = Ch.LBRACE
  THEN [d EXCEPT !.obj = IF At(path, d.pos) = Ch.NUL /\ d.d1 = d.d2
                         THEN off ELSE d.obj,
                 !.d1 = d.d1 + 1]
  ELSE IF tok = Ch.LBRACK THEN find_cb_open_array(d, path, off)
  ELSE IF tok = Ch.COMMA THEN find_cb_comma(d, path)
  ELSE IF tok = MJSON_TOK_KEY /\ d.d1 = d.d2 + 1 /\ At(path, d.pos) = Ch.DOT
          /\ key_matches(m, off, n, path, d.pos)
  THEN [d EXCEPT !.d2 = d.d2 + 1, !.pos = d.pos + n - 1]
  ELSE IF tok = Ch.RBRACE \/ tok = Ch.RBRACK THEN find_cb_close(d, path, tok, off)
  ELSE IF MJSON_TOK_IS_VALUE(tok) /\ d.d1 = d.d2 /\ At(path, d.pos) = Ch.NUL
  THEN [d EXCEPT !.tok = tok, !.tokptr = off, !.toklen = n]
  ELSE d

\* The struct after mjson_find_cb(tok, m, off, n, &d) with d.path = path.
\* tokptr is the offset into m that *tokptr points at, toklen is *toklen.
mjson_find_cb(d, path, m, tok, off, n) ==
  IF d.tok # MJSON_TOK_INVALID THEN d
  ELSE IF tok = Ch.LBRACE
  THEN [d EXCEPT !.obj = IF At(path, d.pos) = Ch.NUL /\ d.d1 = d.d2
                         THEN off ELSE d.obj,
                 !.d1 = d.d1 + 1]
  ELSE IF tok = Ch.LBRACK THEN find_cb_open_array(d, path, off)
  ELSE IF tok = Ch.COMMA THEN find_cb_comma(d, path)
  ELSE IF tok = MJSON_TOK_KEY /\ d.d1 = d.d2 + 1 /\ At(path, d.pos) = Ch.DOT
          /\ key_matches(m, off, n, path, d.pos)
  THEN [d EXCEPT !.d2 = d.d2 + 1, !.pos = d.pos + n - 1]
  ELSE IF tok = Ch.RBRACE \/ tok = Ch.RBRACK THEN find_cb_close(d, path, tok, off)
  ELSE IF MJSON_TOK_IS_VALUE(tok) /\ d.d1 = d.d2 /\ At(path, d.pos) = Ch.NUL
  THEN [d EXCEPT !.tok = tok, !.tokptr = off, !.toklen = n]
  ELSE d

-----------------------------------------------------------------------------
(* mjson: one action per case of the loop body, each a whole iteration *)

\* The byte the iteration looks at.
c == At(s, i)

\* nesting[k] = v, recording a write past the array instead of doing it.
nesting_put(k, v) ==
  IF k < MJSON_MAX_DEPTH THEN [nesting EXCEPT ![k + 1] = v] ELSE nesting

nesting_put_access(k) == IF k < MJSON_MAX_DEPTH THEN access ELSE "above"

\* What nesting[-1] may hold: a byte the function does not own; one value
\* that is '[' and one that is not stand for all of them.
BelowStack == {Ch.NUL, Ch.LBRACK}

\* MJSONCALL with a span that leaves out the iteration's last byte.
MJSONCALL_short(tok, j) ==
  /\ events' = Append(events, [ev |-> tok, off |-> i, len |-> j - i])
  /\ data' = mjson_find_cb(data, jp, s, tok, i, j - i)

\* MJSONCALL(tok) at the end of an iteration that began at i and ends at j.
MJSONCALL(tok, j) ==
  /\ events' = Append(events, [ev |-> tok, off |-> i, len |-> j - i + 1])
  /\ data' = mjson_find_cb(data, jp, s, tok, i, j - i + 1)

\* return v, with no callback
Return(v) ==
  /\ pc' = "ret"
  /\ ret' = v
  /\ UNCHANGED <<i, expecting, nesting, depth, data, events>>

\* the iteration ends in the callback and i++
Continue(tok, j, e) ==
  /\ MJSONCALL(tok, j)
  /\ i' = j + 1
  /\ expecting' = e
  /\ UNCHANGED <<pc, ret>>

\* MJSONCALL(tok); return j + 1;
CallReturn(tok, j) ==
  /\ MJSONCALL(tok, j)
  /\ i' = j
  /\ pc' = "ret"
  /\ ret' = j + 1
  /\ UNCHANGED expecting

\* MJSONEOO() for the closing bracket c, top being what nesting[depth - 1]
\* holds, followed by the rest of the iteration in mode e.
MJSONEOO(top, e) ==
  IF c # top + 2 THEN Return(MJSON_ERROR_INVALID_INPUT) /\ UNCHANGED access
  ELSE /\ depth' = depth - 1
       /\ UNCHANGED <<nesting, access>>
       /\ IF depth - 1 = 0 THEN CallReturn(c, i) ELSE Continue(c, i, e)

\* SkipSpace with no i++: continue taken for a jump to the loop's body.
SkipSpace_stay ==
  /\ pc = "scan" /\ i < len /\ IsSpace(c)
  /\ UNCHANGED vars

\* if (c == ' ' || c == '\t' || c == '\n' || c == '\r') continue;
SkipSpace ==
  /\ pc = "scan" /\ i < len /\ IsSpace(c)
  /\ i' = i + 1
  /\ UNCHANGED <<s, len, jp, pc, expecting, nesting, depth, ret, data, events,
                 access, result, input, printVars>>

\* Open with the depth tested one bracket late.
Open_late ==
  /\ pc = "scan" /\ i < len /\ expecting = S_VALUE
  /\ c \in {Ch.LBRACE, Ch.LBRACK}
  /\ IF depth > MJSON_MAX_DEPTH
     THEN Return(MJSON_ERROR_TOO_DEEP) /\ UNCHANGED access
     ELSE /\ nesting' = nesting_put(depth, c)
          /\ access' = nesting_put_access(depth)
          /\ depth' = depth + 1
          /\ Continue(c, i, IF c = Ch.LBRACE THEN S_KEY ELSE S_VALUE)
  /\ UNCHANGED <<s, len, jp, result, input, printVars>>

\* '{' or '[' where a value is expected
Open ==
  /\ pc = "scan" /\ i < len /\ expecting = S_VALUE
  /\ c \in {Ch.LBRACE, Ch.LBRACK}
  /\ IF depth >= MJSON_MAX_DEPTH
     THEN Return(MJSON_ERROR_TOO_DEEP) /\ UNCHANGED access
     ELSE /\ nesting' = nesting_put(depth, c)
          /\ access' = nesting_put_access(depth)
          /\ depth' = depth + 1
          /\ Continue(c, i, IF c = Ch.LBRACE THEN S_KEY ELSE S_VALUE)
  /\ UNCHANGED <<s, len, jp, result, input, printVars>>

\* The end of the scalar that starts at i, as the S_VALUE case finds it: the
\* token and the index of its last byte, or a negative error.
Scalar ==
  IF c = Ch.t /\ i + 3 < len /\ MemEq(s, i, <<Ch.t, Ch.r, Ch.u, Ch.e>>)
  THEN [tok |-> MJSON_TOK_TRUE, j |-> i + 3]
  ELSE IF c = Ch.n /\ i + 3 < len /\ MemEq(s, i, <<Ch.n, Ch.u, Ch.l, Ch.l>>)
  THEN [tok |-> MJSON_TOK_NULL, j |-> i + 3]
  ELSE IF c = Ch.f /\ i + 4 < len /\ MemEq(s, i, <<Ch.f, Ch.a, Ch.l, Ch.s, Ch.e>>)
  THEN [tok |-> MJSON_TOK_FALSE, j |-> i + 4]
  ELSE IF c = Ch.MINUS \/ IsDigit(c)
  THEN [tok |-> MJSON_TOK_NUMBER, j |-> i + (strtod_end(s, i) - i) - 1]
  ELSE IF c = Ch.QUOTE
  THEN LET n == mjson_pass_string(s, i + 1, len - i - 1)
       IN IF n < 0 THEN [tok |-> n, j |-> i]
          ELSE [tok |-> MJSON_TOK_STRING, j |-> i + n + 1]
  ELSE [tok |-> MJSON_ERROR_INVALID_INPUT, j |-> i]

\* a scalar, or a byte that starts no value, where a value is expected
Value ==
  /\ pc = "scan" /\ i < len /\ expecting = S_VALUE /\ ~IsSpace(c)
  /\ c \notin {Ch.LBRACE, Ch.LBRACK, Ch.RBRACK}
  /\ LET v == Scalar
     IN IF v.tok < 0 THEN Return(v.tok)
        ELSE IF depth = 0 THEN CallReturn(v.tok, v.j) /\ UNCHANGED <<nesting, depth>>
        ELSE Continue(v.tok, v.j, S_COMMA_OR_EOO) /\ UNCHANGED <<nesting, depth>>
  /\ UNCHANGED <<s, len, jp, access, result, input, printVars>>

\* ']' where a value is expected
CloseInValue ==
  /\ pc = "scan" /\ i < len /\ expecting = S_VALUE /\ c = Ch.RBRACK
  /\ IF depth >= 1
     THEN MJSONEOO(nesting[depth], S_COMMA_OR_EOO)
     ELSE \E top \in BelowStack :
            IF c # top + 2
            THEN Return(MJSON_ERROR_INVALID_INPUT) /\ access' = "below"
            ELSE /\ depth' = depth - 1
                 /\ access' = "below"
                 /\ Continue(c, i, S_COMMA_OR_EOO)
                 /\ UNCHANGED nesting
  /\ UNCHANGED <<s, len, jp, result, input, printVars>>

\* case S_KEY
Key ==
  /\ pc = "scan" /\ i < len /\ expecting = S_KEY /\ ~IsSpace(c)
  /\ IF c = Ch.QUOTE
     THEN LET n == mjson_pass_string(s, i + 1, len - i - 1)
          IN /\ IF n < 0 THEN Return(n)
                ELSE Continue(MJSON_TOK_KEY, i + n + 1, S_COLON)
                     /\ UNCHANGED <<nesting, depth>>
             /\ UNCHANGED access
     ELSE IF c = Ch.RBRACE
     THEN MJSONEOO(nesting[depth], S_COMMA_OR_EOO)
     ELSE Return(MJSON_ERROR_INVALID_INPUT) /\ UNCHANGED access
  /\ UNCHANGED <<s, len, jp, result, input, printVars>>

\* case S_COLON
Colon ==
  /\ pc = "scan" /\ i < len /\ expecting = S_COLON /\ ~IsSpace(c)
  /\ IF c = Ch.COLON
     THEN Continue(c, i, S_VALUE) /\ UNCHANGED <<nesting, depth>>
     ELSE Return(MJSON_ERROR_INVALID_INPUT)
  /\ UNCHANGED <<s, len, jp, access, result, input, printVars>>

\* case S_COMMA_OR_EOO
CommaOrEoo ==
  /\ pc = "scan" /\ i < len /\ expecting = S_COMMA_OR_EOO /\ ~IsSpace(c)
  /\ IF depth <= 0 THEN Return(MJSON_ERROR_INVALID_INPUT) /\ UNCHANGED access
     ELSE IF c = Ch.COMMA
     THEN /\ Continue(c, i, IF nesting[depth] = Ch.LBRACE THEN S_KEY ELSE S_VALUE)
          /\ UNCHANGED <<nesting, depth, access>>
     ELSE IF c = Ch.RBRACK \/ c = Ch.RBRACE
     THEN MJSONEOO(nesting[depth], expecting)
     ELSE Return(MJSON_ERROR_INVALID_INPUT) /\ UNCHANGED access
  /\ UNCHANGED <<s, len, jp, result, input, printVars>>

\* the loop ends with no top-level value complete
EndOfInput ==
  /\ pc = "scan" /\ i >= len
  /\ Return(MJSON_ERROR_INVALID_INPUT)
  /\ UNCHANGED <<s, len, jp, access, result, input, printVars>>

-----------------------------------------------------------------------------
(* mjson_find *)

\* if (jp[0] != '$') return MJSON_TOK_INVALID; otherwise mjson is entered
mjson_find_call ==
  /\ pc = "call"
  /\ IF At(jp, 0) # Ch.DOLLAR
     THEN pc' = "done" /\ result' = MJSON_TOK_INVALID
     ELSE pc' = "scan" /\ UNCHANGED result
  /\ UNCHANGED <<s, len, jp, i, expecting, nesting, depth, ret, data, events,
                 access, input, printVars>>

\* if (mjson(...) < 0) return MJSON_TOK_INVALID; return data.tok;
mjson_find_return ==
  /\ pc = "ret"
  /\ pc' = "done"
  /\ result' = IF ret < 0 THEN MJSON_TOK_INVALID ELSE data.tok
  /\ UNCHANGED <<s, len, jp, i, expecting, nesting, depth, ret, data, events,
                 access, input, printVars>>

-----------------------------------------------------------------------------
(* mjson_fixed_buf_printer *)

\* The first n bytes of the memory m, for any n.
Take(m, n) == SubSeq(m, 1, IF n < 0 THEN 0 ELSE IF n > Len(m) THEN Len(m) ELSE n)

\* The length with no test of the room left.
clamp_none(b, n) == n

\* if (len > fb->size - fb->len) len = fb->size - fb->len;
clamp(b, n) == IF n > b.size - b.len THEN b.size - b.len ELSE n

\* mjson_fixed_buf_printer(bytes, n, &k.fb): the struct after the call, the
\* record of the call in k.sink, and the value returned in ret.  A byte
\* stored outside the size bytes at ptr is recorded in sink.over, not stored.
mjson_fixed_buf_printer(k, bytes, n) ==
  LET m == clamp(k.fb, n)
      at == k.fb.len
      ptr == [x \in DOMAIN k.fb.ptr |->
                IF x - 1 >= at /\ x - 1 < at + m THEN At(bytes, x - 1 - at)
                ELSE k.fb.ptr[x]]
      over == \E x \in at..(at + m - 1) : x < 0 \/ x >= Len(k.fb.ptr)
  IN [fb |-> [ptr |-> ptr, size |-> k.fb.size, len |-> at + m],
      sink |-> [reqs |-> k.sink.reqs \o Take(bytes, n),
                calls |-> k.sink.calls + 1,
                asked |-> n, got |-> m, before |-> at,
                over |-> k.sink.over \/ over,
                init |-> k.sink.init],
      ret |-> m]

\* The printers call the sink through fn.
fn(k, bytes, n) == mjson_fixed_buf_printer(k, bytes, n)

Sunk == [fb |-> fb, sink |-> sink, ret |-> 0]

-----------------------------------------------------------------------------
(* mjson_print_buf, mjson_print_str *)

\* return fn(buf, len, ud);
mjson_print_buf(k, buf, n) == fn(k, buf, n)

\* One iteration of mjson_print_str's loop on the byte ch, n being the count
\* so far (carried in k.ret).
print_str_byte(k, ch) ==
  LET e == mjson_esc(ch, 1)
  IN IF e # 0
     THEN LET k1 == fn(k, <<Ch.BSLASH>>, 1)
              k2 == fn(k1, <<e>>, 1)
          IN [k2 EXCEPT !.ret = k.ret + k1.ret + k2.ret]
     ELSE LET k1 == fn(k, <<ch>>, 1)
          IN [k1 EXCEPT !.ret = k.ret + k1.ret]

RECURSIVE print_str_loop(_, _, _, _)
print_str_loop(k, str, n, j) ==
  IF j >= n THEN k
  ELSE print_str_loop(print_str_byte(k, At(str, j)), str, n, j + 1)

\* mjson_print_str(str, n, fn, &k.fb)
mjson_print_str(k, str, n) ==
  LET k0 == fn(k, <<Ch.QUOTE>>, 1)
      k1 == print_str_loop(k0, str, n, 0)
      k2 == fn(k1, <<Ch.QUOTE>>, 1)
  IN [k2 EXCEPT !.ret = k1.ret + k2.ret]

-----------------------------------------------------------------------------
(* mjson_unescape *)

RECURSIVE unescape_loop(_, _, _, _, _, _, _)
\* The loop of mjson_unescape(&m[base], n, to, cap) from indices (j1, j2): the
\* memory at to, the index j2 it ended with, and whether it ended at an
\* invalid escape.  The memory at to may be longer than the cap bytes the
\* caller owns.
unescape_loop(m, base, n, to, cap, j1, j2) ==
  IF ~(j1 < n /\ j2 < cap) THEN [to |-> to, j |-> j2, bad |-> FALSE]
  ELSE IF At(m, base + j1) = Ch.BSLASH /\ j1 + 1 < n
  THEN LET e == mjson_esc(At(m, base + j1 + 1), 0)
       IN IF e = 0 THEN [to |-> to, j |-> j2, bad |-> TRUE]
          ELSE unescape_loop(m, base, n, [to EXCEPT ![j2 + 1] = e], cap, j1 + 2, j2 + 1)
  ELSE unescape_loop(m, base, n, [to EXCEPT ![j2 + 1] = At(m, base + j1)], cap,
                     j1 + 1, j2 + 1)

\* mjson_unescape that reports a full buffer as a success.
mjson_unescape_full(m, base, n, to, cap) ==
  LET u == unescape_loop(m, base, n, to, cap, 0, 0)
  IN IF u.bad THEN [to |-> u.to, ret |-> -1]
     ELSE [to |-> [u.to EXCEPT ![u.j + 1] = Ch.NUL], ret |-> u.j]

\* mjson_unescape(&m[base], n, to, cap): the memory at to after the call and
\* the value returned.
mjson_unescape(m, base, n, to, cap) ==
  LET u == unescape_loop(m, base, n, to, cap, 0, 0)
  IN IF u.bad THEN [to |-> u.to, ret |-> -1]
     ELSE IF u.j >= cap THEN [to |-> u.to, ret |-> -1]
     ELSE [to |-> [u.to EXCEPT ![u.j + 1] = Ch.NUL], ret |-> u.j]

-----------------------------------------------------------------------------
(* mjson_print_int: one action per activation entered and per activation   *)
(* resumed, the recursion being what may not end                           *)

MaxFrames == 12   \* activations of mjson_print_int the model follows

INT_MIN == (0 - 2147483647) - 1
INT_MAX == 2147483647

\* -n in 32-bit two's complement
Negate32(n) == IF n = INT_MIN THEN INT_MIN ELSE 0 - n

\* The activation entered with -n.  -INT_MIN overflows, which is undefined:
\* a build either wraps it to INT_MIN and tests n < 0 again ("enter"), or
\* has taken -n for a number that is not negative and has dropped the test
\* ("assumed").
Negated(n) ==
  IF n = INT_MIN
  THEN {[n |-> Negate32(n), st |-> "enter"], [n |-> Negate32(n), st |-> "assumed"]}
  ELSE {[n |-> Negate32(n), st |-> "enter"]}

Digit(n) == <<Ch.D0 + (n % 10)>>

\* What &("0123456789"[n % 10]) points at: the digit, or for a negative n a
\* byte before the literal, for which '8' and NUL stand.
DigitRead(n) == IF n >= 0 THEN {Digit(n)} ELSE {<<Ch.D0 + 8>>, <<Ch.NUL>>}

\* n > 10
Recurses(n) == n > 10

PrinterDone(k, v) ==
  /\ fb' = k.fb /\ sink' = k.sink
  /\ rv' = v

\* the activation frames[Len(frames)] starts
mjson_print_int_enter ==
  /\ pc = "p_run" /\ op = "print_int" /\ frames # <<>>
  /\ frames[Len(frames)].st \in {"enter", "assumed"}
  /\ LET n == frames[Len(frames)].n
         wait == [frames EXCEPT ![Len(frames)].st = "wait"]
     IN IF n < 0 /\ frames[Len(frames)].st = "enter"
        THEN /\ Len(frames) < MaxFrames
             /\ PrinterDone(fn(Sunk, <<Ch.MINUS>>, 1), rv)
             /\ \E f \in Negated(n) : frames' = Append(wait, f)
             /\ UNCHANGED <<pc, out>>
        ELSE IF Recurses(n)
        THEN /\ Len(frames) < MaxFrames
             /\ frames' = Append(wait, [n |-> n \div 10, st |-> "enter"])
             /\ UNCHANGED <<pc, out, fb, sink, rv>>
        ELSE \E dg \in DigitRead(n) :
               LET k == fn(Sunk, dg, 1)
               IN /\ PrinterDone(k, 0 + k.ret)
                  /\ frames' = SubSeq(frames, 1, Len(frames) - 1)
                  /\ IF Len(frames) = 1
                     THEN pc' = "p_done" /\ out' = [out EXCEPT !.ret = k.ret]
                     ELSE UNCHANGED <<pc, out>>
  /\ UNCHANGED <<scanVars, op, arg>>

\* the activation frames[Len(frames)] goes on after the call it made returned
mjson_print_int_leave ==
  /\ pc = "p_run" /\ op = "print_int" /\ frames # <<>>
  /\ frames[Len(frames)].st = "wait"
  /\ LET n == frames[Len(frames)].n
         k == IF n < 0 THEN Sunk ELSE fn(Sunk, Digit(n), 1)
         v == IF n < 0 THEN rv + 1 ELSE rv + k.ret
     IN /\ PrinterDone(k, v)
        /\ frames' = SubSeq(frames, 1, Len(frames) - 1)
        /\ IF Len(frames) = 1
           THEN pc' = "p_done" /\ out' = [out EXCEPT !.ret = v]
           ELSE UNCHANGED <<pc, out>>
  /\ UNCHANGED <<scanVars, op, arg>>

-----------------------------------------------------------------------------
(* The calls of the other printer-side functions, each a whole call *)

mjson_print_str_call ==
  /\ pc = "p_run" /\ op = "print_str"
  /\ LET k == mjson_print_str(Sunk, arg.str, Len(arg.str))
     IN /\ fb' = k.fb /\ sink' = k.sink
        /\ out' = [out EXCEPT !.ret = k.ret]
  /\ pc' = "p_done"
  /\ UNCHANGED <<scanVars, op, arg, frames, rv>>

mjson_print_buf_call ==
  /\ pc = "p_run" /\ op = "print_buf"
  /\ LET k == mjson_print_buf(Sunk, arg.str, Len(arg.str))
     IN /\ fb' = k.fb /\ sink' = k.sink
        /\ out' = [out EXCEPT !.ret = k.ret]
  /\ pc' = "p_done"
  /\ UNCHANGED <<scanVars, op, arg, frames, rv>>

MaxCalls == 3     \* calls of mjson_fixed_buf_printer in a row
MaxReq == 5       \* bytes one call asks the sink to take
MaxCap == 3       \* the small capacities of a buffer: 0..MaxCap
RoomyCap == 12    \* a capacity that holds any output of the model

Caps == 0..MaxCap \cup {RoomyCap}

\* mjson_fixed_buf_printer called by itself: the call-th call passes n copies
\* of the call-th letter.
fixed_buf_printer_call ==
  /\ pc = "p_run" /\ op = "sink" /\ sink.calls < MaxCalls
  /\ \E n \in 0..MaxReq :
       LET k == mjson_fixed_buf_printer(Sunk, [x \in 1..n |-> Ch.a + sink.calls], n)
       IN /\ fb' = k.fb /\ sink' = k.sink
          /\ out' = [out EXCEPT !.ret = k.ret]
  /\ UNCHANGED <<scanVars, pc, op, arg, frames, rv>>

\* mjson_unescape on the body of the literal mjson_print_str has emitted
\* after the buffer's first Len(sink.init) bytes, into a buffer of cap bytes
\* that hold 'x'
mjson_unescape_call ==
  /\ pc = "p_done" /\ op = "print_str"
  /\ \E cap \in Caps :
       LET u == mjson_unescape(fb.ptr, Len(sink.init) + 1,
                               fb.len - Len(sink.init) - 2,
                               [x \in 1..cap |-> Ch.x], cap)
       IN out' = [out EXCEPT !.to = u.to, !.uret = u.ret]
  /\ pc' = "u_done"
  /\ UNCHANGED <<scanVars, op, arg, fb, sink, frames, rv>>

\* mjson_esc on the byte arg.n, in both directions, and back
mjson_esc_call ==
  /\ pc = "p_run" /\ op = "esc"
  /\ out' = [out EXCEPT !.e1 = mjson_esc(arg.n, 1),
                        !.e0 = mjson_esc(arg.n, 0),
                        !.back = mjson_esc(mjson_esc(arg.n, 1), 0)]
  /\ pc' = "p_done"
  /\ UNCHANGED <<scanVars, op, arg, fb, sink, frames, rv>>

\* What the caller's buffer to holds before mjson_find_string: a byte no
\* document has.
Fill == Ch.PLUS

\* The memory at to: the cap bytes of the caller's buffer and the byte after.
ToMemory(cap) == [x \in 1..(cap + 1) |-> Fill]

\* mjson_find_string(s, len, jp, to, cap), from the return of its call of
\* mjson_find on: if (mjson_find(...) != MJSON_TOK_STRING) return 0;
\* return mjson_unescape(p + 1, sz - 2, to, n);  It is called on the
\* documents given with a path and on the strings.
mjson_find_string ==
  /\ pc = "done" /\ op = "none"
  /\ input.family \in {"find", "badpath", "string"}
  /\ \E cap \in Caps :
       IF result # MJSON_TOK_STRING
       THEN out' = [out EXCEPT !.to = ToMemory(cap), !.uret = 0]
       ELSE LET u == mjson_unescape(s, data.tokptr + 1, data.toklen - 2,
                                    ToMemory(cap), cap)
            IN out' = [out EXCEPT !.to = u.to, !.uret = u.ret]
  /\ pc' = "fs_done"
  /\ UNCHANGED <<scanVars, op, arg, fb, sink, frames, rv>>

-----------------------------------------------------------------------------
(* Inputs: JSON documents as trees, their serialization, and what a path   *)
(* denotes in a document under ordinary evaluation.  These define the      *)
(* inputs and the expected answers; they model no code.                    *)

Leaf(tok, txt) == [tok |-> tok, txt |-> txt, keys |-> <<>>, kids |-> <<>>]
Arr(kids) == [tok |-> MJSON_TOK_ARRAY, txt |-> <<>>, keys |-> <<>>, kids |-> kids]
Obj(keys, kids) == [tok |-> MJSON_TOK_OBJECT, txt |-> <<>>, keys |-> keys, kids |-> kids]

RECURSIVE Ser(_, _)
RECURSIVE Members(_, _, _)

\* The text of document d with the whitespace w after every token inside it.
Ser(d, w) ==
  IF d.tok = MJSON_TOK_ARRAY THEN <<Ch.LBRACK>> \o w \o Members(d, 1, w) \o <<Ch.RBRACK>>
  ELSE IF d.tok = MJSON_TOK_OBJECT THEN <<Ch.LBRACE>> \o w \o Members(d, 1, w) \o <<Ch.RBRACE>>
  ELSE d.txt

KeyText(d, k, w) ==
  IF d.tok = MJSON_TOK_OBJECT
  THEN <<Ch.QUOTE>> \o d.keys[k] \o <<Ch.QUOTE>> \o w \o <<Ch.COLON>> \o w
  ELSE <<>>

Members(d, k, w) ==
  IF k > Len(d.kids) THEN <<>>
  ELSE KeyText(d, k, w) \o Ser(d.kids[k], w) \o w
       \o (IF k < Len(d.kids) THEN <<Ch.COMMA>> \o w ELSE <<>>)
       \o Members(d, k + 1, w)

\* The offset, in the compact text of container d, of its k-th member's value.
RECURSIVE ValueOffset(_, _)
ValueOffset(d, k) ==
  (IF k = 1 THEN 1
   ELSE ValueOffset(d, k - 1) + Len(Ser(d.kids[k - 1], <<>>)) + 1)
  + Len(KeyText(d, k, <<>>))

RECURSIVE Levels(_)
RECURSIVE MaxLevels(_, _)
MaxLevels(kids, k) ==
  IF k > Len(kids) THEN 0
  ELSE LET a == Levels(kids[k])
           b == MaxLevels(kids, k + 1)
       IN IF a > b THEN a ELSE b
\* How deep the brackets of d nest.
Levels(d) ==
  IF d.tok \in {MJSON_TOK_ARRAY, MJSON_TOK_OBJECT} THEN 1 + MaxLevels(d.kids, 1) ELSE 0

KeySeg(name) == [name |-> name, idx |-> -1]
IdxSeg(n) == [name |-> <<>>, idx |-> n]

RECURSIVE Dec(_)
\* The decimal digits of n >= 0.
Dec(n) == IF n < 10 THEN <<Ch.D0 + n>> ELSE Dec(n \div 10) \o <<Ch.D0 + (n % 10)>>

RECURSIVE PathText(_)
\* The path expression of a sequence of segments.
PathText(segs) ==
  IF segs = <<>> THEN <<Ch.DOLLAR>>
  ELSE LET g == segs[Len(segs)]
       IN PathText(SubSeq(segs, 1, Len(segs) - 1))
          \o (IF g.idx >= 0 THEN <<Ch.LBRACK>> \o Dec(g.idx) \o <<Ch.RBRACK>>
              ELSE <<Ch.DOT>> \o g.name)

NotFound == [tok |-> MJSON_TOK_INVALID, off |-> -1, len |-> -1]

RECURSIVE Denotes(_, _, _)
\* The kind and the span, in the compact text, of the value that the path
\* segs denotes in document d, whose text starts at off; NotFound when it
\* denotes none.
Denotes(d, segs, off) ==
  IF segs = <<>> THEN [tok |-> d.tok, off |-> off, len |-> Len(Ser(d, <<>>))]
  ELSE LET g == Head(segs)
           ks == IF g.idx >= 0
                 THEN IF d.tok = MJSON_TOK_ARRAY /\ g.idx < Len(d.kids)
                      THEN {g.idx + 1} ELSE {}
                 ELSE IF d.tok = MJSON_TOK_OBJECT
                      THEN {k \in 1..Len(d.keys) : d.keys[k] = g.name} ELSE {}
       IN IF ks = {} THEN NotFound
          ELSE LET k == CHOOSE k \in ks : TRUE
               IN Denotes(d.kids[k], Tail(segs), off + ValueOffset(d, k))

-----------------------------------------------------------------------------
(* The bounded sets the inputs are drawn from *)

MaxElems == 2     \* elements of an array
MaxSegs == 2      \* segments of a path
MaxToks == 3      \* lexemes after the open bracket of an unstructured input
MaxBody == 4      \* bytes after the opening quote of a string input
MaxTail == 1      \* bytes of memory after the length given
MaxNest == 21     \* brackets opened by a nested input

Num1 == Leaf(MJSON_TOK_NUMBER, <<Ch.D1>>)
Str == Leaf(MJSON_TOK_STRING, <<Ch.QUOTE, Ch.x, Ch.BSLASH, Ch.QUOTE, Ch.QUOTE>>)

\* 1, -2.0e1, "x\"", "\\", true, false, null
Scalars ==
  { Num1, Str,
    Leaf(MJSON_TOK_NUMBER, <<Ch.MINUS, Ch.D2, Ch.DOT, Ch.D0, Ch.e, Ch.D1>>),
    Leaf(MJSON_TOK_STRING, <<Ch.QUOTE, Ch.BSLASH, Ch.BSLASH, Ch.QUOTE>>),
    Leaf(MJSON_TOK_TRUE, <<Ch.t, Ch.r, Ch.u, Ch.e>>),
    Leaf(MJSON_TOK_FALSE, <<Ch.f, Ch.a, Ch.l, Ch.s, Ch.e>>),
    Leaf(MJSON_TOK_NULL, <<Ch.n, Ch.u, Ch.l, Ch.l>>) }

\* The sequences of at most n elements of K.
RECURSIVE SeqsUpTo(_, _)
SeqsUpTo(K, n) ==
  IF n = 0 THEN {<<>>}
  ELSE SeqsUpTo(K, n - 1) \cup {Append(q, x) : q \in SeqsUpTo(K, n - 1), x \in K}

\* The key lists of the objects: keys unique within an object; "a" is a
\* proper prefix of "ab", and "" is the empty key.
KeyLists == { <<>>, << <<Ch.a>> >>, << <<Ch.a>>, <<Ch.a, Ch.b>> >>,
              << <<>>, <<Ch.a>> >> }

Arrays(K) == {Arr(q) : q \in SeqsUpTo(K, MaxElems)}
Objects(K) ==
  UNION {{Obj(kl, q) : q \in {x \in SeqsUpTo(K, Len(kl)) : Len(x) = Len(kl)}} : kl \in KeyLists}

Kids1 == {Num1, Str}
Kids2 == {Num1, Arr(<<>>), Arr(<<Num1>>), Obj(<<>>, <<>>), Obj(<< <<Ch.a>> >>, <<Num1>>)}

\* Scalars, containers of scalars, and containers of containers.
Docs ==
  Scalars \cup {Arr(<<x>>) : x \in Scalars}
  \cup Arrays(Kids1) \cup Objects(Kids1) \cup Arrays(Kids2) \cup Objects(Kids2)

Segs == {KeySeg(<<Ch.a>>), KeySeg(<<Ch.a, Ch.b>>), IdxSeg(0), IdxSeg(1)}
Paths == SeqsUpTo(Segs, MaxSegs)

\* Paths that do not start with '$': the empty path and ".a".
BadPaths == {<<>>, <<Ch.DOT, Ch.a>>}

Spaces == {<<>>, <<Ch.SP>>, <<Ch.LF, Ch.TAB>>}
Tails == SeqsUpTo({Ch.D1, Ch.RBRACK}, MaxTail)

\* [ ] { } , : 1 - space "a"
Lexemes == { <<Ch.LBRACK>>, <<Ch.RBRACK>>, <<Ch.LBRACE>>, <<Ch.RBRACE>>,
             <<Ch.COMMA>>, <<Ch.COLON>>, <<Ch.D1>>, <<Ch.MINUS>>, <<Ch.SP>>,
             <<Ch.QUOTE, Ch.a, Ch.QUOTE>> }

RECURSIVE Flat(_)
Flat(q) == IF q = <<>> THEN <<>> ELSE Head(q) \o Flat(Tail(q))

\* A scan that does not start at an open bracket ends within its first
\* lexemes: all inputs of two lexemes, and an open bracket followed by up to
\* MaxToks lexemes.
RawInputs ==
  {Flat(q) : q \in SeqsUpTo(Lexemes, 2)}
  \cup {<<o>> \o Flat(q) : o \in {Ch.LBRACK, Ch.LBRACE}, q \in SeqsUpTo(Lexemes, MaxToks)}

\* The bytes of a string body: \ " n x NUL LF
BodyBytes == {Ch.BSLASH, Ch.QUOTE, Ch.n, Ch.x, Ch.NUL, Ch.LF}

RECURSIVE Rep(_, _)
Rep(x, n) == IF n = 0 THEN <<>> ELSE x \o Rep(x, n - 1)

\* What follows the last bracket opened: nothing, 1, 1[ and {
Mids == {<<>>, <<Ch.D1>>, <<Ch.D1, Ch.LBRACK>>, <<Ch.LBRACE>>}

\* k brackets of one kind opened, each inside the one before, then mid, then
\* j brackets closed.
Nested(open, k, mid, j) ==
  IF open = Ch.LBRACK
  THEN Rep(<<Ch.LBRACK>>, k) \o mid \o Rep(<<Ch.RBRACK>>, j)
  ELSE (IF k = 0 THEN <<>>
        ELSE Rep(<<Ch.LBRACE, Ch.QUOTE, Ch.a, Ch.QUOTE, Ch.COLON>>, k - 1) \o <<Ch.LBRACE>>)
       \o mid \o Rep(<<Ch.RBRACE>>, j)

\* Whether Nested(open, k, mid, j) is a JSON value.
NestedValid(open, k, mid, j) ==
  k >= 1 /\ j = k /\ (mid = <<>> \/ (mid = <<Ch.D1>> /\ open = Ch.LBRACK))

-----------------------------------------------------------------------------
(* The state at the call of mjson_find(s, len, jp, &tokptr, &toklen) *)

\* What the caller's tokptr and toklen hold before the call.
Before == [tokptr |-> -1, toklen |-> -1]

\* no printer-side function is called
NoPrinter ==
  /\ op = "none" /\ arg = [n |-> 0, str |-> <<>>]
  /\ fb = [ptr |-> <<>>, size |-> 0, len |-> 0]
  /\ sink = [reqs |-> <<>>, calls |-> 0, asked |-> 0, got |-> 0, before |-> 0,
             over |-> FALSE, init |-> <<>>]
  /\ frames = <<>> /\ rv = 0
  /\ out = [ret |-> 0, to |-> <<>>, uret |-> 0, e1 |-> 0, e0 |-> 0, back |-> 0]

Scan(mem, n, path, in) ==
  /\ s = mem /\ len = n /\ jp = path /\ input = in
  /\ i = 0 /\ expecting = S_VALUE /\ depth = 0
  /\ nesting = [k \in 1..MJSON_MAX_DEPTH |-> 0]
  /\ ret = 0 /\ result = MJSON_TOK_INVALID
  /\ data = [pos |-> 1, d1 |-> 0, d2 |-> 0, i1 |-> 0, i2 |-> 0, obj |-> -1,
             tokptr |-> Before.tokptr, toklen |-> Before.toklen,
             tok |-> MJSON_TOK_INVALID]
  /\ events = <<>>
  /\ access = "ok"

Start(mem, n, path, in) ==
  /\ Scan(mem, n, path, in)
  /\ pc = "call"
  /\ NoPrinter

\* a document in compact form and a path
InitFind ==
  \E d \in Docs, q \in Paths :
    Start(Ser(d, <<>>), Len(Ser(d, <<>>)), PathText(q),
          [family |-> "find", valid |-> TRUE, levels |-> Levels(d),
           lead |-> 0, span |-> Len(Ser(d, <<>>)), want |-> Denotes(d, q, 0)])

\* a document and a path that does not start with '$'
InitBadPath ==
  \E d \in Scalars \cup Arrays(Kids1), p \in BadPaths :
    Start(Ser(d, <<>>), Len(Ser(d, <<>>)), p,
          [family |-> "badpath", valid |-> TRUE, levels |-> Levels(d),
           lead |-> 0, span |-> Len(Ser(d, <<>>)), want |-> NotFound])

\* a document with whitespace around its tokens and bytes after it
InitDoc ==
  \E d \in Docs, w \in Spaces, tl \in Tails :
    LET txt == w \o Ser(d, w) \o w
    IN Start(txt \o tl, Len(txt), <<Ch.DOLLAR>>,
             [family |-> "doc", valid |-> TRUE, levels |-> Levels(d),
              lead |-> Len(w), span |-> Len(Ser(d, w)),
              want |-> [tok |-> d.tok, off |-> Len(w), len |-> Len(Ser(d, w))]])

\* any lexemes, the length given ending at or before the end of the memory
InitRaw ==
  \E mem \in RawInputs, cut \in 0..MaxTail :
    /\ cut <= Len(mem)
    /\ Start(mem, Len(mem) - cut, <<Ch.DOLLAR>>,
             [family |-> "raw", valid |-> FALSE, levels |-> 0, lead |-> 0,
              span |-> 0,
              want |-> NotFound])

\* nested brackets, all of them closed or none
InitNested ==
  \E open \in {Ch.LBRACK, Ch.LBRACE}, k \in 0..MaxNest, mid \in Mids :
    \E j \in {0, k} :
      LET txt == Nested(open, k, mid, j)
          ok == NestedValid(open, k, mid, j)
      IN Start(txt, Len(txt), <<Ch.DOLLAR>>,
               [family |-> "nested", valid |-> ok, levels |-> k, lead |-> 0,
                span |-> Len(txt),
                want |-> IF ok THEN [tok |-> open, off |-> 0, len |-> Len(txt)]
                         ELSE NotFound])

\* a document of one level without its last byte, and a path
InitCut ==
  \E d \in Arrays(Kids1) \cup Objects(Kids1), q \in Paths :
    Start(Ser(d, <<>>), Len(Ser(d, <<>>)) - 1, PathText(q),
          [family |-> "cut", valid |-> FALSE, levels |-> Levels(d), lead |-> 0,
           span |-> 0, want |-> NotFound])

\* a string: the opening quote and any body
InitString ==
  \E body \in SeqsUpTo(BodyBytes, MaxBody) :
    Start(<<Ch.QUOTE>> \o body, 1 + Len(body), <<Ch.DOLLAR>>,
          [family |-> "string", valid |-> FALSE, levels |-> 0, lead |-> 0,
           span |-> 0,
           want |-> NotFound])

Init ==
  InitFind \/ InitBadPath \/ InitDoc \/ InitRaw \/ InitNested \/ InitString \/ InitCut

Next ==
  \/ mjson_find_call
  \/ SkipSpace
  \/ Open
  \/ Value
  \/ CloseInValue
  \/ Key
  \/ Colon
  \/ CommaOrEoo
  \/ EndOfInput
  \/ mjson_find_return
  \/ mjson_find_string

Spec == Init /\ [][Next]_vars

\* mjson called on byte sequences of any kind; the program is sequential and
\* nothing suspends it, so a step that can be taken is taken.
InitBytes == InitRaw \/ InitNested \/ InitString

SpecLive == InitBytes /\ [][Next]_vars /\ WF_vars(Next)

-----------------------------------------------------------------------------
(* The state at the call of a printer-side function *)

MaxStr == 2       \* bytes of a string given to mjson_print_str
MaxInt == 110     \* mjson_print_int is given -MaxInt..MaxInt, and more

\* A buffer of size bytes of which the first used are taken: (size, used).
Bufs == {b \in Caps \X (0..MaxCap) : b[2] <= b[1]}

\* The 8 characters of the escape table, and one outside it.
StrBytes == {Ch.BS, Ch.FF, Ch.LF, Ch.CR, Ch.TAB, Ch.BSLASH, Ch.QUOTE, Ch.SLASH, Ch.a}

Ints == (-MaxInt..MaxInt) \cup {-1024, 1024, INT_MIN, INT_MAX}

Printer(o, a, b) ==
  /\ Scan(<<>>, 0, <<>>, [family |-> "none", valid |-> FALSE, levels |-> 0,
                          lead |-> 0, span |-> 0, want |-> NotFound])
  /\ pc = "p_run"
  /\ op = o /\ arg = a
  /\ fb = [ptr |-> [x \in 1..b[1] |-> IF x <= b[2] THEN Ch.x ELSE Ch.NUL],
           size |-> b[1], len |-> b[2]]
  /\ sink = [reqs |-> <<>>, calls |-> 0, asked |-> 0, got |-> 0, before |-> 0,
             over |-> FALSE, init |-> [x \in 1..b[2] |-> Ch.x]]
  /\ frames = IF o = "print_int" THEN <<[n |-> a.n, st |-> "enter"]>> ELSE <<>>
  /\ rv = 0
  /\ out = [ret |-> 0, to |-> <<>>, uret |-> 0, e1 |-> 0, e0 |-> 0, back |-> 0]

InitPrintInt ==
  \E n \in Ints, b \in Bufs : Printer("print_int", [n |-> n, str |-> <<>>], b)

InitPrintStr ==
  \E str \in SeqsUpTo(StrBytes, MaxStr), b \in Bufs :
    Printer("print_str", [n |-> 0, str |-> str], b)

InitPrintBuf ==
  \E str \in SeqsUpTo({Ch.a}, MaxReq), b \in Bufs :
    Printer("print_buf", [n |-> 0, str |-> str], b)

InitSink == \E b \in Bufs : Printer("sink", [n |-> 0, str |-> <<>>], b)

InitEsc == \E ch \in 0..127 : Printer("esc", [n |-> ch, str |-> <<>>], <<0, 0>>)

InitPrint == InitPrintInt \/ InitPrintStr \/ InitPrintBuf \/ InitSink \/ InitEsc

NextPrint ==
  \/ mjson_print_int_enter
  \/ mjson_print_int_leave
  \/ mjson_print_str_call
  \/ mjson_print_buf_call
  \/ fixed_buf_printer_call
  \/ mjson_unescape_call
  \/ mjson_esc_call

SpecPrint == InitPrint /\ [][NextPrint]_vars

-----------------------------------------------------------------------------
(* Claims *)

\* What mjson_find reported: the kind returned and the span it stored.
Reported == [tok |-> result, off |-> data.tokptr, len |-> data.toklen]

FindDone == pc = "done" /\ input.family = "find"

\* C1: for a valid document and a path of the grammar, whenever mjson_find
\* returns a kind other than MJSON_TOK_INVALID, the kind and the span are
\* those of the value the path denotes under ordinary evaluation; so when
\* the path denotes no value, mjson_find returns MJSON_TOK_INVALID.
C1_FoundIsDenoted ==
  FindDone /\ result # MJSON_TOK_INVALID => Reported = input.want

\* C2: for a valid document with unique keys and a path of the grammar that
\* denotes a value in it, mjson_find returns that value's kind and stores
\* exactly that value's span.
C2_DenotedIsFound ==
  FindDone /\ input.want # NotFound => Reported = input.want

\* C1 and C2 fail: a path that denotes no value, and is answered with one.
C1_SiblingMatch ==
  FindDone /\ input.want = NotFound /\ result # MJSON_TOK_INVALID

\* A path that denotes a value, and is answered with none.
C2_Missed ==
  FindDone /\ input.want # NotFound /\ result = MJSON_TOK_INVALID

-----------------------------------------------------------------------------
(* The events of a scan *)

\* mjson has returned (mjson_find may have returned after it).
Returned == pc \in {"ret", "done"} /\ op = "none" /\ At(jp, 0) = Ch.DOLLAR

\* The offset after the k-th event; 0 for k = 0.
EventEnd(k) == IF k = 0 THEN 0 ELSE events[k].off + events[k].len

\* The bytes at offsets a .. b - 1 are whitespace.
OnlySpace(a, b) == \A x \in a..(b - 1) : IsSpace(At(s, x))

\* a syntactically valid value that nests no deeper than mjson allows
ValidInput == input.valid /\ input.levels <= MJSON_MAX_DEPTH /\ At(jp, 0) = Ch.DOLLAR

\* C3: for a syntactically valid top-level value, the events tile the range
\* consumed: no event is empty, each starts at or after the end of the one
\* before (so offsets increase strictly and no two overlap), the bytes
\* before the first event and between two consecutive events are whitespace
\* only, and when mjson returns it returns the end of the last event; that
\* is the end of the value when the memory ends where the buffer does.
C3_EventsTile ==
  ValidInput =>
    /\ \A k \in 1..Len(events) :
         /\ events[k].len >= 1
         /\ events[k].off >= EventEnd(k - 1)
         /\ OnlySpace(EventEnd(k - 1), events[k].off)
    /\ pc = "scan" => i >= EventEnd(Len(events)) /\ OnlySpace(EventEnd(Len(events)), i)
    /\ Returned =>
         /\ events # <<>>
         /\ ret = EventEnd(Len(events))
         /\ ret >= 1
         /\ Len(s) = len => ret = input.lead + input.span

\* A document with whitespace before it and between its tokens has been
\* scanned to its end in six events or more.
C3_Witness ==
  /\ Returned /\ ValidInput /\ input.family = "doc" /\ input.lead > 0
  /\ Len(events) >= 6 /\ ret = EventEnd(Len(events)) /\ ret < len

\* C4: mjson returns a negative error or a length r with 1 <= r <= len, and
\* no event is empty or reaches past len.
C4_ReturnWithinLen ==
  /\ Returned => ret < 0 \/ (1 <= ret /\ ret <= len)
  /\ op = "none" =>
       \A k \in 1..Len(events) :
         events[k].len >= 1 /\ events[k].off + events[k].len <= len

\* mjson returned more than len, or 0, and stepped on no byte below nesting[].
C4_Overrun == Returned /\ access = "ok" /\ (ret > len \/ ret = 0)

\* an opening bracket is the byte the scan stopped at, with 20 open
OpenerAtLimit ==
  i < len /\ c \in {Ch.LBRACE, Ch.LBRACK} /\ depth = MJSON_MAX_DEPTH

\* What C5 says as it stands: MJSON_ERROR_TOO_DEEP is returned exactly when
\* an opening bracket is met while 20 are open.
C5_TooDeepIffOpenerAtLimit ==
  pc = "ret" => (ret = MJSON_ERROR_TOO_DEEP <=> OpenerAtLimit)

\* C5: MJSON_ERROR_TOO_DEEP is returned exactly when an opening bracket is
\* met where a value is expected while 20 are open; an input nested exactly
\* 20 deep is accepted whole; depth never exceeds MJSON_MAX_DEPTH and
\* nesting[] is never written at MJSON_MAX_DEPTH or above.
C5_TooDeepIffValueOpenerAtLimit ==
  /\ depth <= MJSON_MAX_DEPTH
  /\ access # "above"
  /\ pc = "ret" =>
       (ret = MJSON_ERROR_TOO_DEEP <=> OpenerAtLimit /\ expecting = S_VALUE)
  /\ pc = "ret" /\ input.family = "nested" /\ input.valid
       /\ input.levels = MJSON_MAX_DEPTH => ret = Len(s)

\* The 21st bracket was met and refused.
C5_Witness ==
  /\ pc = "ret" /\ ret = MJSON_ERROR_TOO_DEEP /\ depth = MJSON_MAX_DEPTH
  /\ input.levels > MJSON_MAX_DEPTH

-----------------------------------------------------------------------------
(* Strings, as the specification scans them *)

\* b f n r t \ " /
EscapeLetters == {Ch.b, Ch.f, Ch.n, Ch.r, Ch.t, Ch.BSLASH, Ch.QUOTE, Ch.SLASH}

RECURSIVE StringBodyEnd(_, _, _, _)
\* The offset in the body &m[base] of n bytes of its first unescaped quote;
\* MJSON_ERROR_INVALID_INPUT for a backslash not followed by an escape
\* letter, a NUL byte, or no such quote within n.
StringBodyEnd(m, base, n, j) ==
  IF j >= n THEN MJSON_ERROR_INVALID_INPUT
  ELSE IF At(m, base + j) = Ch.BSLASH
  THEN IF j + 1 < n /\ At(m, base + j + 1) \in EscapeLetters
       THEN StringBodyEnd(m, base, n, j + 2)
       ELSE MJSON_ERROR_INVALID_INPUT
  ELSE IF At(m, base + j) = Ch.NUL THEN MJSON_ERROR_INVALID_INPUT
  ELSE IF At(m, base + j) = Ch.QUOTE THEN j
  ELSE StringBodyEnd(m, base, n, j + 1)

\* C6: scanning a string fails with MJSON_ERROR_INVALID_INPUT when its body
\* has a backslash not followed by one of the 8 escape letters, a raw NUL,
\* or no closing unescaped quote within len; otherwise the string ends at
\* its first unescaped quote.
C6_StringScan ==
  pc = "ret" /\ input.family = "string" =>
    LET r == StringBodyEnd(s, 1, len - 1, 0)
    IN /\ mjson_pass_string(s, 1, len - 1) = r
       /\ ret = IF r < 0 THEN MJSON_ERROR_INVALID_INPUT ELSE r + 2

\* A string with a backslash before a byte that is no escape letter was
\* accepted.
C6_BadEscapeAccepted ==
  /\ pc = "ret" /\ input.family = "string" /\ ret > 0
  /\ StringBodyEnd(s, 1, len - 1, 0) = MJSON_ERROR_INVALID_INPUT

RECURSIVE NextToken(_)
\* The offset of the first byte at or after k that is not whitespace.
NextToken(k) == IF k < len /\ IsSpace(At(s, k)) THEN NextToken(k + 1) ELSE k

\* a comma was delivered and the next byte that is not whitespace closes a
\* bracket
TrailingComma ==
  \E k \in 1..Len(events) :
    /\ events[k].ev = Ch.COMMA
    /\ NextToken(EventEnd(k)) < len
    /\ At(s, NextToken(EventEnd(k))) \in {Ch.RBRACK, Ch.RBRACE}

\* C7: a closing bracket is accepted where a value or a key is expected only
\* right after the bracket it closes, never right after a comma; an input
\* with a comma directly followed by a closing bracket returns
\* MJSON_ERROR_INVALID_INPUT.
C7_TrailingCommaRejected ==
  /\ \A k \in 2..Len(events) :
       events[k].ev \in {Ch.RBRACK, Ch.RBRACE} => events[k - 1].ev # Ch.COMMA
  /\ pc = "ret" /\ TrailingComma => ret = MJSON_ERROR_INVALID_INPUT

\* An input with a trailing comma was accepted.
C7_TrailingCommaAccepted == pc = "ret" /\ TrailingComma /\ ret > 0

-----------------------------------------------------------------------------
(* The printers *)

\* The canonical decimal representation of n.
Decimal(n) == IF n < 0 THEN <<Ch.MINUS>> \o Dec(0 - n) ELSE Dec(n)

\* The bytes stored in the buffer since the printer-side function was called.
Written == SubSeq(fb.ptr, Len(sink.init) + 1, fb.len)

\* C8: mjson_print_int(n) into a buffer with room for the canonical decimal
\* representation of n writes exactly that representation and returns its
\* length.
C8_PrintsDecimal ==
  op = "print_int" /\ pc = "p_done" /\ arg.n > INT_MIN
    /\ fb.size - Len(sink.init) >= Len(Decimal(arg.n)) =>
    /\ Written = Decimal(arg.n)
    /\ out.ret = Len(Decimal(arg.n))

\* mjson_print_int returned with digits of n missing though there was room.
C8_DigitsDropped ==
  /\ op = "print_int" /\ pc = "p_done" /\ arg.n > INT_MIN
  /\ fb.size - Len(sink.init) >= Len(Decimal(arg.n))
  /\ Len(Written) < Len(Decimal(arg.n))

\* C9: after any calls of mjson_fixed_buf_printer on a buffer that starts
\* with 0 <= len <= size: the last call accepted and returned
\* min(requested, size - len before it), which is no error; len <= size; no
\* byte outside the size bytes was stored; and the first len bytes of the
\* buffer are the first len bytes of what it held at the start followed by
\* all the bytes requested, so no byte stored earlier has changed.
C9_SinkTruncates ==
  op # "none" =>
    /\ 0 <= fb.len /\ fb.len <= fb.size
    /\ ~sink.over
    /\ Len(fb.ptr) = fb.size
    /\ Take(fb.ptr, fb.len) = Take(sink.init \o sink.reqs, fb.len)
    /\ sink.calls > 0 =>
         /\ sink.got = (IF sink.asked < fb.size - sink.before
                        THEN sink.asked ELSE fb.size - sink.before)
         /\ sink.got >= 0
         /\ fb.len = sink.before + sink.got
    /\ op = "sink" /\ sink.calls > 0 => out.ret = sink.got

\* A buffer of 3 bytes that was empty took 3 of the 5 bytes of a call.
C9_Witness ==
  /\ op = "sink" /\ sink.calls = 1 /\ fb.size = 3 /\ sink.before = 0
  /\ sink.asked = 5 /\ out.ret = 3 /\ fb.len = 3

\* backspace, form feed, line feed, carriage return, tab, \ " /
Specials == {Ch.BS, Ch.FF, Ch.LF, Ch.CR, Ch.TAB, Ch.BSLASH, Ch.QUOTE, Ch.SLASH}

\* str is made of the 8 special characters only
AllSpecial(str) == \A k \in 1..Len(str) : str[k] \in Specials

\* mjson_print_str had room for the whole literal, and mjson_unescape for
\* the whole string and its terminator.
Adequate ==
  /\ Len(sink.reqs) = fb.len - Len(sink.init)
  /\ Len(out.to) > Len(arg.str)

\* C10: for each of the 8 special characters c, mjson_esc(mjson_esc(c, 1), 0)
\* is c; a character that is none of the 8 maps to 0 under mjson_esc(c, 1)
\* and one that is none of the 8 escape letters maps to 0 under
\* mjson_esc(c, 0); and a string of special characters emitted by
\* mjson_print_str and decoded, without its quotes, by mjson_unescape, both
\* into adequate buffers, comes back whole, with its length returned.
C10_EscapeRoundTrip ==
  /\ op = "esc" /\ pc = "p_done" =>
       /\ arg.n \in Specials => out.e1 \in EscapeLetters /\ out.back = arg.n
       /\ arg.n \notin Specials => out.e1 = 0
       /\ arg.n \notin EscapeLetters => out.e0 = 0
  /\ op = "print_str" /\ pc = "u_done" /\ AllSpecial(arg.str) /\ Adequate =>
       /\ out.uret = Len(arg.str)
       /\ Take(out.to, out.uret) = arg.str

\* A line feed and a quote went through mjson_print_str and mjson_unescape.
C10_Witness ==
  /\ op = "print_str" /\ pc = "u_done" /\ Adequate
  /\ arg.str = <<Ch.LF, Ch.QUOTE>>
  /\ Written = <<Ch.QUOTE, Ch.BSLASH, Ch.n, Ch.BSLASH, Ch.QUOTE, Ch.QUOTE>>
  /\ out.uret = 2

-----------------------------------------------------------------------------
(* mjson_find_string *)

\* The character an escape letter stands for.
Unescaped(e) ==
  CASE e = Ch.b -> Ch.BS [] e = Ch.f -> Ch.FF [] e = Ch.n -> Ch.LF
    [] e = Ch.r -> Ch.CR [] e = Ch.t -> Ch.TAB [] OTHER -> e

RECURSIVE Decoded(_, _)
\* The decoded content of the string body b from its k-th byte on, and
\* whether every backslash in it is followed by an escape letter.
Decoded(b, k) ==
  IF k > Len(b) THEN [ok |-> TRUE, txt |-> <<>>]
  ELSE IF b[k] = Ch.BSLASH
  THEN IF k + 1 <= Len(b) /\ b[k + 1] \in EscapeLetters
       THEN LET d == Decoded(b, k + 2)
            IN [ok |-> d.ok, txt |-> <<Unescaped(b[k + 1])>> \o d.txt]
       ELSE [ok |-> FALSE, txt |-> <<>>]
  ELSE LET d == Decoded(b, k + 1)
       IN [ok |-> d.ok, txt |-> <<b[k]>> \o d.txt]

\* The body of the string token mjson_find stored: the span without its
\* quotes.
FoundBody == SubSeq(s, data.tokptr + 2, data.tokptr + data.toklen - 1)

\* The n given to mjson_find_string.
ToCap == Len(out.to) - 1

\* C11: when mjson_find_string has returned: if the path resolved to a
\* string whose decoded content has length L < n, to holds the L decoded
\* bytes and a NUL at to[L], and L is returned; if L >= n or a backslash of
\* the body is not followed by an escape letter, -1 is returned; if the path
\* resolved to no string, 0 is returned and to is as it was; and the byte
\* after to[n - 1] is never written.
C11_FindString ==
  pc = "fs_done" =>
    /\ out.to[ToCap + 1] = Fill
    /\ result # MJSON_TOK_STRING => out.uret = 0 /\ out.to = ToMemory(ToCap)
    /\ result = MJSON_TOK_STRING =>
         LET d == Decoded(FoundBody, 1)
         IN IF d.ok /\ Len(d.txt) < ToCap
            THEN /\ out.uret = Len(d.txt)
                 /\ Take(out.to, Len(d.txt)) = d.txt
                 /\ out.to[Len(d.txt) + 1] = Ch.NUL
            ELSE out.uret = -1

\* The string "\n" was decoded into a buffer of 3 bytes: a line feed and NUL.
C11_Witness ==
  /\ pc = "fs_done" /\ result = MJSON_TOK_STRING
  /\ s = <<Ch.QUOTE, Ch.BSLASH, Ch.n, Ch.QUOTE>>
  /\ ToCap = 3 /\ out.uret = 1
  /\ out.to = <<Ch.LF, Ch.NUL, Fill, Fill>>

-----------------------------------------------------------------------------
(* The extent of the scan *)

\* The byte at offset x is inside an event.
InEvent(x) ==
  \E k \in 1..Len(events) : events[k].off <= x /\ x < events[k].off + events[k].len

\* C12: mjson_find scans all of the len bytes: when it returns a kind other
\* than MJSON_TOK_INVALID, every byte of the buffer that is not whitespace
\* was delivered to the matcher inside a token, those after the first
\* top-level value included (a byte that starts no token would have been a
\* syntax error, and MJSON_TOK_INVALID returned).
C12_WholeBufferScanned ==
  pc = "done" /\ op = "none" /\ result # MJSON_TOK_INVALID =>
    \A x \in 0..(len - 1) : IsSpace(At(s, x)) \/ InEvent(x)

\* The buffer 1] was given with the path $: the number was reported, and the
\* ']' after it was neither delivered nor taken for an error.
C12_TrailingIgnored ==
  /\ pc = "done" /\ s = <<Ch.D1, Ch.RBRACK>> /\ len = 2 /\ jp = <<Ch.DOLLAR>>
  /\ result = MJSON_TOK_NUMBER /\ Len(events) = 1

\* One iteration of mjson's loop is taken: a token is delivered, or mjson
\* returns, or whitespace is passed over.
ScanGoesOn ==
  \/ Len(events') = Len(events) + 1
  \/ pc' = "ret"
  \/ IsSpace(c) /\ i' = i + 1 /\ events' = events

\* C13: once a match is recorded (data.tok is not MJSON_TOK_INVALID) no
\* later event changes data.tok, *tokptr, *toklen, pos, d1, d2, i1, i2 or
\* obj, and what mjson_find returns is that match; the scan is not cut
\* short: every later iteration still delivers its token, until mjson
\* returns.
C13_FirstMatchWins ==
  /\ [][data.tok # MJSON_TOK_INVALID =>
          /\ data' = data
          /\ pc = "scan" => ScanGoesOn]_vars
  /\ [](pc = "done" /\ op = "none" /\ ret >= 0 /\ At(jp, 0) = Ch.DOLLAR =>
          result = data.tok)
  /\ [](FindDone /\ result # MJSON_TOK_INVALID =>
          ret = Len(s) /\ EventEnd(Len(events)) = ret)

\* A match was returned that was recorded before the scan delivered the
\* three last events.
C13_Witness ==
  /\ FindDone /\ result = MJSON_TOK_NUMBER /\ Len(events) >= 4
  /\ events[Len(events) - 2].off >= data.tokptr + data.toklen

-----------------------------------------------------------------------------
(* Keys and path segments *)

RECURSIVE SegmentEnd(_)
\* The offset in the path of the end of the name that has a byte at k: the
\* next '.', '[' or the end of the path.
SegmentEnd(k) ==
  IF At(jp, k) \in {Ch.DOT, Ch.LBRACK, Ch.NUL} THEN k ELSE SegmentEnd(k + 1)

\* The name of the .name segment that starts at the cursor.
SegmentName == SubSeq(jp, data.pos + 2, SegmentEnd(data.pos + 1))

\* The event delivered by the step, and the text of the key it is.
Delivered == events'[Len(events')]
KeyDelivered ==
  Len(events') = Len(events) + 1 /\ Delivered.ev = MJSON_TOK_KEY
DeliveredKeyText ==
  SubSeq(s, Delivered.off + 2, Delivered.off + Delivered.len - 1)

\* C14: a key token changes the path cursor or d2 only when d1 = d2 + 1, the
\* cursor is at a .name segment and the text of the key is the whole name
\* of that segment; the cursor then moves to the end of the segment and d2
\* grows by one.  A key that is a proper prefix of the name, an empty key
\* or a key that runs over several segments changes neither.
C14_KeyIsWholeSegment ==
  [][KeyDelivered /\ (data'.pos # data.pos \/ data'.d2 # data.d2) =>
       /\ data.d1 = data.d2 + 1
       /\ At(jp, data.pos) = Ch.DOT
       /\ DeliveredKeyText = SegmentName
       /\ data'.pos = SegmentEnd(data.pos + 1)
       /\ data'.d2 = data.d2 + 1]_vars

\* In {"a":1,"ab":2} with the path $.ab, the key "a" has moved the cursor
\* into the name ab: the member the path names was not found.
C14_PrefixAdvanced ==
  /\ FindDone /\ jp = <<Ch.DOLLAR, Ch.DOT, Ch.a, Ch.b>>
  /\ Len(events) >= 2 /\ events[2].ev = MJSON_TOK_KEY /\ events[2].len = 3
  /\ input.want.tok = MJSON_TOK_NUMBER
  /\ data.pos = 3 /\ data.d2 = 1 /\ result = MJSON_TOK_INVALID

-----------------------------------------------------------------------------
(* The mode and the bracket stack *)

\* The innermost open bracket is an object.
InObject == depth >= 1 /\ nesting[depth] = Ch.LBRACE

\* The step delivers the token tok.
Delivers(tok) == Len(events') = Len(events) + 1 /\ Delivered.ev = tok

\* C15: in mjson's loop the mode agrees with the bracket stack: S_KEY and
\* S_COLON only with an object innermost, S_COMMA_OR_EOO only with a bracket
\* open; after a ',' the mode is S_KEY with an object innermost and S_VALUE
\* otherwise; a closing bracket is accepted only when it is of the kind of
\* the innermost open bracket, and when it closes the last one its event is
\* delivered and mjson returns at once.
C15_ModeMatchesStack ==
  /\ [](pc = "scan" /\ op = "none" =>
          /\ expecting \in {S_KEY, S_COLON} => InObject
          /\ expecting = S_COMMA_OR_EOO => depth >= 1)
  /\ [][/\ Delivers(Ch.COMMA) =>
             expecting' = IF InObject THEN S_KEY ELSE S_VALUE
        /\ Delivers(Ch.RBRACK) \/ Delivers(Ch.RBRACE) =>
             /\ depth >= 1 /\ nesting[depth] + 2 = Delivered.ev
             /\ depth' = depth - 1
             /\ depth' = 0 => pc' = "ret" /\ ret' = i + 1]_vars

\* A ']' met with no bracket open was accepted: the scan goes on in mode
\* S_COMMA_OR_EOO with depth -1.
C15_ModeWithoutBracket ==
  /\ pc = "scan" /\ expecting = S_COMMA_OR_EOO /\ depth < 1
  /\ events # <<>> /\ events[Len(events)].ev = Ch.RBRACK

\* C18: depth is never negative, nesting[depth - 1] is never read with
\* depth < 1, and a closing bracket met with no bracket open makes mjson
\* return MJSON_ERROR_INVALID_INPUT, with no event.
C18_NoReadBelowStack ==
  /\ [](depth >= 0 /\ access # "below")
  /\ [][pc = "scan" /\ i < len /\ depth = 0 /\ c \in {Ch.RBRACK, Ch.RBRACE} =>
          pc' = "ret" /\ ret' = MJSON_ERROR_INVALID_INPUT /\ events' = events]_vars

\* nesting[-1] was read for a ']' met with no bracket open, and depth is -1.
C18_ReadBelowStack == access = "below" /\ depth = -1

-----------------------------------------------------------------------------
(* What the emitters return *)

\* C16: mjson_print_int, mjson_print_str and mjson_print_buf return the
\* number of bytes mjson_fixed_buf_printer accepted during the call, which
\* is how much fb->len has grown, whatever the capacity.
C16_ReturnsAccepted ==
  op \in {"print_int", "print_str", "print_buf"} /\ pc \in {"p_done", "u_done"} =>
    out.ret = fb.len - Len(sink.init)

\* mjson_print_int of a negative number into a full buffer returned 1: no
\* byte was accepted.
C16_SignCounted ==
  /\ op = "print_int" /\ pc = "p_done" /\ arg.n < 0 /\ arg.n > -10
  /\ fb.len = Len(sink.init) /\ fb.len = fb.size /\ out.ret = 1

-----------------------------------------------------------------------------
(* Termination of the scan *)

\* C17: every call of mjson returns; an iteration that does not return
\* moves on in the buffer or, staying where it is, changes the mode; and a
\* return with an error delivers no event.
C17_ScanReturns ==
  /\ (pc = "scan") ~> (pc = "ret")
  /\ [][pc = "scan" /\ pc' = "scan" => i' > i \/ (i' = i /\ expecting' # expecting)]_vars
  /\ [][pc = "scan" /\ pc' = "ret" /\ ret' < 0 => events' = events]_vars
  /\ [][pc # "scan" => events' = events]_vars

\* mjson has returned an error after an iteration that stayed where it was:
\* its event, for a '-' with no digit, is empty.
C17_Witness ==
  /\ pc = "ret" /\ ret = MJSON_ERROR_INVALID_INPUT /\ input.family = "raw"
  /\ Len(events) >= 2 /\ events[Len(events)].len = 0
  /\ i = events[Len(events)].off

-----------------------------------------------------------------------------
(* What mjson_find leaves in *tokptr and *toklen *)

\* C19: when mjson_find returns MJSON_TOK_INVALID, *tokptr and *toklen hold
\* what they held before the call; and for a path that does not start with
\* '$' nothing is scanned and no event is delivered.
C19_InvalidLeavesOutputs ==
  pc = "done" /\ op = "none" /\ result = MJSON_TOK_INVALID =>
    /\ data.tokptr = Before.tokptr /\ data.toklen = Before.toklen
    /\ At(jp, 0) # Ch.DOLLAR => events = <<>> /\ i = 0

\* [1,1 was given for [1,1] with the path $[0]: MJSON_TOK_INVALID was
\* returned, and the span of the first 1 stored.
C19_StoredThenInvalid ==
  /\ pc = "done" /\ input.family = "cut" /\ result = MJSON_TOK_INVALID
  /\ s = <<Ch.LBRACK, Ch.D1, Ch.COMMA, Ch.D1, Ch.RBRACK>> /\ len = 4
  /\ jp = <<Ch.DOLLAR, Ch.LBRACK, Ch.D0, Ch.RBRACK>>
  /\ ret = MJSON_ERROR_INVALID_INPUT /\ data.tokptr = 1 /\ data.toklen = 1

-----------------------------------------------------------------------------
(* The recursion of mjson_print_int *)

RECURSIVE NumDigits(_)
\* The number of decimal digits of n.
NumDigits(n) == IF n > -10 /\ n < 10 THEN 1 ELSE 1 + NumDigits(n \div 10)

\* C20: mjson_print_int never has more activations than n has decimal
\* digits, plus one, so it terminates, n = INT_MIN included; and every
\* activation after the first, the sign being handled, has an argument that
\* is not negative.
C20_RecursionBounded ==
  op = "print_int" =>
    /\ Len(frames) <= NumDigits(arg.n) + 1
    /\ \A k \in 2..Len(frames) : frames[k].n >= 0

\* mjson_print_int(INT_MIN): every activation calls the next with INT_MIN.
C20_Runaway ==
  /\ op = "print_int" /\ pc = "p_run" /\ arg.n = INT_MIN
  /\ Len(frames) = MaxFrames
  /\ \A k \in 1..Len(frames) : frames[k].n = INT_MIN

=============================================================================
